---------------------------- MODULE Spec2Model ----------------------------
(* A model of kui's command-palette analytics store                         *)
(* (src-tauri/src/command_palette.rs): the four tables of the SQLite file,  *)
(* the recorder, the aggregator, the pattern miner and the suggestion       *)
(* engine, and the Tauri commands that call them; and the window counter of *)
(* the application (src-tauri/src/main.rs) with the windows it labels.      *)
(*                                                                          *)
(* Timestamps are the instants that Utc::now() returned, in seconds; their  *)
(* RFC 3339 rendering orders as the instants do, so the model compares the  *)
(* instants.  Strings that the code takes apart or puts together (command   *)
(* ids) are sequences of characters.                                        *)
EXTENDS Integers, Sequences, FiniteSets, TLC

VARIABLES
    command_invocations,  \* table command_invocations, in rowid order
    recent_queries,       \* table recent_queries, a set of rows
    recent_resources,     \* table recent_resources, a set of rows
    command_patterns,     \* table command_patterns, a set of rows
    next_rowid,           \* the AUTOINCREMENT counters (sqlite_sequence)
    now,                  \* the wall clock, as last read by Utc::now()
    ret,                  \* what the last completed operation returned
    effect,               \* history: what the last completed write did
    calls,                \* history: the operations started so far
    deleted,              \* history: every row a retention trim deleted
    connections,          \* the open CommandPaletteDb values: connection + mutex
    pc,                   \* per request handler: its position in its command
    local,                \* per request handler: its command's local state
    schema,               \* the tables and indexes of the store (sqlite_master)
    window_count,         \* AppState.window_count
    windows               \* the labels of the open windows

vars == <<command_invocations, recent_queries, recent_resources,
          command_patterns, next_rowid, now, ret, effect, calls, deleted,
          connections, pc, local, schema, window_count, windows>>

-----------------------------------------------------------------------------
(* Bounds of the model.                                                     *)

\* Operations one run performs after the store was opened.
MaxCalls == 3

\* Rows an earlier session left in a table of the store file.
PrefillRows == 99

-----------------------------------------------------------------------------
(* Generic helpers.                                                         *)

Min(a, b) == IF a < b THEN a ELSE b

Max(a, b) == IF a > b THEN a ELSE b

NULL == "NULL"

NoKey == [kind |-> "", name |-> "", namespace |-> NULL, context |-> NULL]

\* touched: the rowids the write inserted or updated; evicted: the rows its
\* trim deleted; key and streak: the resource key it accessed and how many
\* accesses in a row, from the key's first, that makes (0: not counted);
\* rerun: a miner run that repeats the call before it, arguments and all.
NoEffect == [touched |-> {}, evicted |-> {}, inserted |-> FALSE,
             key |-> NoKey, streak |-> 0, rerun |-> FALSE]

\* Option<T>: None and Some(x).
None == << >>

Some(x) == <<x>>

\* What a command returned: Ok(list) or Err, and the argument it was given.
Returned(op, ok, list) ==
    [op |-> op, ok |-> ok, list |-> list, arg |-> None, panic |-> FALSE]

Idle == Returned("none", TRUE, << >>)

-----------------------------------------------------------------------------
(* SQL fragments the operations share.                                      *)

\* LIMIT 100 of the retention trims.
RetentionLimit == 100

\* The possible results, as sets of rows, of
\*   SELECT ... FROM rows ORDER BY timestamp DESC LIMIT n
\* Rows of equal timestamp come in an order SQL leaves open, so the rows at
\* the cut are any of the ties.
TopByTimestamp(rows, n) ==
    IF Cardinality(rows) <= n THEN {rows}
    ELSE IF n = 0 THEN {{}}
    ELSE LET stamps == {r.timestamp : r \in rows}
             cut == CHOOSE t \in stamps :
                        /\ Cardinality({r \in rows : r.timestamp >= t}) >= n
                        /\ Cardinality({r \in rows : r.timestamp > t}) < n
             above == {r \in rows : r.timestamp > cut}
             ties == {r \in rows : r.timestamp = cut}
         IN  {above \cup T : T \in {S \in SUBSET ties :
                                      Cardinality(S) = n - Cardinality(above)}}

\* A trim that ranks the wrong way round (ORDER BY timestamp ASC).
RetentionTrimOldest(rows) ==
    {rows \ gone :
       gone \in TopByTimestamp(rows, Max(Cardinality(rows) - RetentionLimit, 0))}

\* A trim whose LIMIT is one too large.
RetentionTrimOffByOne(rows) == TopByTimestamp(rows, RetentionLimit + 1)

\* The possible tables after
\*   DELETE FROM t WHERE id NOT IN (SELECT id FROM t ORDER BY timestamp DESC LIMIT 100)
RetentionTrim(rows) == TopByTimestamp(rows, RetentionLimit)

\* The orders in which a set of rows that tie in the ORDER BY can come.
RECURSIVE TieOrders(_)
TieOrders(rows) ==
    IF rows = {} THEN {<< >>}
    ELSE UNION {{<<r>> \o s : s \in TieOrders(rows \ {r})} : r \in rows}

\* The possible orders in which ORDER BY timestamp DESC returns a set of rows:
\* newest first, and the rows of one timestamp in any order.
RECURSIVE OrderByTimestampDesc(_)
OrderByTimestampDesc(rows) ==
    LET stamps == {r.timestamp : r \in rows}
    IN  IF Cardinality(stamps) <= 1 THEN TieOrders(rows)
        ELSE LET oldest == CHOOSE t \in stamps : \A u \in stamps : t <= u
                 newest == CHOOSE t \in stamps : \A u \in stamps : u <= t
                 middle == (oldest + newest) \div 2
                 newer == {r \in rows : r.timestamp > middle}
             IN  {p \o s : p \in OrderByTimestampDesc(newer),
                           s \in OrderByTimestampDesc(rows \ newer)}

-----------------------------------------------------------------------------
(* Recorder and aggregator: search queries.                                 *)

Queries == {"get pods", "logs"}

ResultCounts == {0, 3}

\* Utc::now() steps the clock may take between two reads: forward, none (two
\* reads within the clock's resolution), or back (the wall clock was set).
ClockSteps == {-1, 0, 1}

\* record_query: INSERT, then the retention trim, on one connection.
record_query(query, result_count, dt) ==
    /\ calls < MaxCalls
    /\ now + dt >= 0
    /\ LET timestamp == now + dt
           row == [id |-> next_rowid.recent_queries, query |-> query,
                   timestamp |-> timestamp, result_count |-> result_count]
           inserted == recent_queries \cup {row}
       IN  \E kept \in RetentionTrim(inserted) :
             /\ recent_queries' = kept
             /\ effect' = [NoEffect EXCEPT !.touched = {row.id},
                                            !.evicted = inserted \ kept,
                                            !.inserted = TRUE]
             /\ deleted' = [deleted EXCEPT !.recent_queries = @ \cup (inserted \ kept)]
             /\ now' = timestamp
    /\ next_rowid' = [next_rowid EXCEPT !.recent_queries = @ + 1]
    /\ ret' = Returned("record_query", TRUE, << >>)
    /\ calls' = calls + 1
    /\ UNCHANGED <<window_count, windows, schema, command_invocations, recent_resources, command_patterns,
                   connections, pc, local>>

\* get_recent_queries: SELECT ... ORDER BY timestamp DESC LIMIT ?1
RecentQuery(row) ==
    [query |-> row.query, timestamp |-> row.timestamp, result_count |-> row.result_count]

get_recent_queries(limit) ==
    /\ calls < MaxCalls
    /\ \E top \in TopByTimestamp(recent_queries, limit) :
         \E rows \in OrderByTimestampDesc(top) :
           ret' = Returned("get_recent_queries", TRUE,
                            [i \in 1..Len(rows) |-> RecentQuery(rows[i])])
    /\ effect' = NoEffect
    /\ calls' = calls + 1
    /\ UNCHANGED <<window_count, windows, schema, command_invocations, recent_queries, recent_resources,
                   command_patterns, next_rowid, now, deleted, connections, pc, local>>

\* A store file as an earlier session left it: n queries recorded one a second.
PrefilledQueries(n) ==
    {[id |-> i, query |-> "get pods", timestamp |-> i, result_count |-> 0] : i \in 1..n}

-----------------------------------------------------------------------------
(* Recorder and aggregator: resource accesses.                              *)

\* The keys the model accesses: namespace and context are Option<&str>.
ResourceKeys ==
    {[kind |-> "pod", name |-> "web", namespace |-> "default", context |-> "kind"],
     [kind |-> "pod", name |-> "web", namespace |-> NULL, context |-> "kind"],
     [kind |-> "pod", name |-> "db", namespace |-> "default", context |-> NULL],
     [kind |-> "node", name |-> "db", namespace |-> NULL, context |-> NULL]}

KeyOf(row) ==
    [kind |-> row.kind, name |-> row.name, namespace |-> row.namespace,
     context |-> row.context]

\* SQL's = on two column values: never true of a NULL.
SqlEq(a, b) == a # NULL /\ b # NULL /\ a = b

\* Whether inserting key violates UNIQUE(kind, name, namespace, context) against
\* row: SQLite takes every NULL of a UNIQUE column as distinct from all values.
UniqueConflict(row, key) ==
    /\ SqlEq(row.kind, key.kind)
    /\ SqlEq(row.name, key.name)
    /\ SqlEq(row.namespace, key.namespace)
    /\ SqlEq(row.context, key.context)

\* INSERT ... ON CONFLICT(kind, name, namespace, context) DO UPDATE SET
\*   timestamp = excluded.timestamp, access_count = access_count + 1
UpsertResource(rows, key, timestamp, rowid) ==
    IF \E r \in rows : UniqueConflict(r, key)
    THEN {IF UniqueConflict(r, key)
          THEN [r EXCEPT !.timestamp = timestamp, !.access_count = @ + 1]
          ELSE r : r \in rows}
    ELSE rows \cup {[id |-> rowid, kind |-> key.kind, name |-> key.name,
                     namespace |-> key.namespace, context |-> key.context,
                     timestamp |-> timestamp, access_count |-> 1]}

\* record_resource_access: the upsert, then the retention trim.
record_resource_access(key, dt) ==
    /\ calls < MaxCalls
    /\ now + dt >= 0
    /\ LET timestamp == now + dt
           upserted == UpsertResource(recent_resources, key, timestamp,
                                      next_rowid.recent_resources)
           isInsert == Cardinality(upserted) > Cardinality(recent_resources)
           touched == {r.id : r \in upserted \ recent_resources}
           known == \E r \in recent_resources : KeyOf(r) = key
       IN  \E kept \in RetentionTrim(upserted) :
             /\ recent_resources' = kept
             /\ effect' = [touched |-> touched, evicted |-> upserted \ kept,
                           inserted |-> isInsert, key |-> key, rerun |-> FALSE,
                           streak |-> IF \E r \in upserted \ kept : r.id \in touched
                                      THEN 0
                                      ELSE IF ~known THEN 1
                                      ELSE IF effect.key = key /\ effect.streak > 0
                                      THEN effect.streak + 1
                                      ELSE 0]
             /\ next_rowid' = [next_rowid EXCEPT !.recent_resources =
                                  IF isInsert THEN @ + 1 ELSE @]
             /\ deleted' = [deleted EXCEPT !.recent_resources = @ \cup (upserted \ kept)]
             /\ now' = timestamp
    /\ ret' = Returned("record_resource_access", TRUE, << >>)
    /\ calls' = calls + 1
    /\ UNCHANGED <<window_count, windows, schema, command_invocations, recent_queries, command_patterns,
                   connections, pc, local>>

ResourceSummary(row) ==
    [kind |-> row.kind, name |-> row.name, namespace |-> row.namespace,
     context |-> row.context, last_accessed |-> row.timestamp,
     access_count |-> row.access_count]

\* get_recent_resources: SELECT ... [WHERE kind = ?1] ORDER BY timestamp DESC LIMIT
get_recent_resources(limit, kind_filter) ==
    /\ calls < MaxCalls
    /\ LET matching == IF kind_filter = NULL THEN recent_resources
                       ELSE {r \in recent_resources : SqlEq(r.kind, kind_filter)}
       IN  \E top \in TopByTimestamp(matching, limit) :
             \E rows \in OrderByTimestampDesc(top) :
               ret' = Returned("get_recent_resources", TRUE,
                                [i \in 1..Len(rows) |-> ResourceSummary(rows[i])])
    /\ effect' = NoEffect
    /\ calls' = calls + 1
    /\ UNCHANGED <<window_count, windows, schema, command_invocations, recent_queries, recent_resources,
                   command_patterns, next_rowid, now, deleted, connections, pc, local>>

\* The possible orders in which ORDER BY access_count DESC, timestamp DESC
\* returns a set of rows.
RECURSIVE OrderByAccessCountDesc(_)
OrderByAccessCountDesc(rows) ==
    IF rows = {} THEN {<< >>}
    ELSE LET most == CHOOSE c \in {r.access_count : r \in rows} :
                        \A r \in rows : r.access_count <= c
             top == {r \in rows : r.access_count = most}
         IN  {p \o s : p \in OrderByTimestampDesc(top),
                       s \in OrderByAccessCountDesc(rows \ top)}

\* get_top_resources:
\*   SELECT ... [WHERE kind = ?1] ORDER BY access_count DESC, timestamp DESC LIMIT
get_top_resources(limit, kind_filter) ==
    /\ calls < MaxCalls
    /\ LET matching == IF kind_filter = NULL THEN recent_resources
                       ELSE {r \in recent_resources : SqlEq(r.kind, kind_filter)}
       IN  \E rows \in OrderByAccessCountDesc(matching) :
             ret' = Returned("get_top_resources", TRUE,
                              [i \in 1..Min(limit, Len(rows)) |-> ResourceSummary(rows[i])])
    /\ effect' = NoEffect
    /\ calls' = calls + 1
    /\ UNCHANGED <<window_count, windows, schema, command_invocations, recent_queries, recent_resources,
                   command_patterns, next_rowid, now, deleted, connections, pc, local>>

\* A store file as an earlier session left it: n resources accessed once each,
\* one a second.
PrefilledResources(n) ==
    {[id |-> i, kind |-> "pod", name |-> "web-" \o ToString(i),
      namespace |-> "default", context |-> "kind", timestamp |-> i,
      access_count |-> 1] : i \in 1..n}

-----------------------------------------------------------------------------
(* Recorder and aggregator: command invocations.                            *)

\* record_invocation: one INSERT with a fresh timestamp.  command_id is a
\* string, here its characters; execution_time_ms is an Option<i64>.
record_invocation(command_id, execution_time_ms, success, error_message, context, dt) ==
    /\ now + dt >= 0
    /\ now' = now + dt
    /\ command_invocations' = Append(command_invocations,
          [command_id |-> command_id, timestamp |-> now + dt,
           execution_time_ms |-> execution_time_ms, success |-> success,
           error_message |-> error_message, context |-> context])
    /\ ret' = Returned("record_invocation", TRUE, << >>)
    /\ effect' = NoEffect
    /\ calls' = calls + 1
    /\ UNCHANGED <<window_count, windows, schema, recent_queries, recent_resources, command_patterns, next_rowid,
                   deleted, connections, pc, local>>

Quote == "'"

\* How SQLite reads the text that format!("... command_id = '{}' AND ...", id)
\* puts between the opening quote and the rest of the statement: a string
\* literal runs to the first quote that is not doubled, and a doubled quote
\* stands for one quote.  The result is the literal's value and how much of
\* id it took; the literal is closed by the quote the format string puts
\* after id exactly when it takes all of id.
RECURSIVE ScanLiteral(_, _, _)
ScanLiteral(id, i, value) ==
    IF i > Len(id) THEN [closed |-> TRUE, value |-> value, rest |-> << >>]
    ELSE IF id[i] # Quote THEN ScanLiteral(id, i + 1, Append(value, id[i]))
    ELSE IF i < Len(id) /\ id[i + 1] = Quote
         THEN ScanLiteral(id, i + 2, Append(value, Quote))
    ELSE IF i = Len(id)
         \* id's last quote and the format string's quote read as one doubled
         \* quote: the literal runs on into the statement and never ends
         THEN [closed |-> FALSE, value |-> value, rest |-> << >>]
    ELSE [closed |-> TRUE, value |-> value, rest |-> SubSeq(id, i + 1, Len(id))]

\* conn.prepare(&query) of get_command_stats(Some(id)): the statement is well
\* formed when the literal ends where the format string ends it.  What is
\* left of id after an early end is letters and quotes here, which is no SQL.
PreparedLiteral(id) ==
    LET scan == ScanLiteral(id, 1, << >>)
    IN  [ok |-> scan.closed /\ scan.rest = << >>, value |-> scan.value]

SumOf(rows) ==
    LET RECURSIVE Sum(_)
        Sum(S) == IF S = {} THEN 0
                  ELSE LET i == CHOOSE j \in S : TRUE
                       IN  rows[i].execution_time_ms[1] + Sum(S \ {i})
    IN  Sum(DOMAIN rows)

\* One group of SELECT command_id, COUNT(*), MAX(timestamp), AVG(execution_time_ms)
\*   FROM command_invocations WHERE ... success = 1 GROUP BY command_id
\* AVG skips the rows whose execution_time_ms is NULL and is NULL when it skips
\* all; the average is kept as its sum and its count.
CommandStats(command_id) ==
    LET hits == SelectSeq(command_invocations,
                          LAMBDA r : r.command_id = command_id /\ r.success)
        timed == SelectSeq(hits, LAMBDA r : r.execution_time_ms # None)
    IN  [command_id |-> command_id,
         hit_count |-> Len(hits),
         last_used |-> CHOOSE t \in {hits[i].timestamp : i \in DOMAIN hits} :
                          \A i \in DOMAIN hits : hits[i].timestamp <= t,
         avg_execution_time |-> IF timed = << >> THEN None
                                ELSE <<SumOf(timed), Len(timed)>>]

SuccessfulIds ==
    {command_invocations[i].command_id :
        i \in {j \in DOMAIN command_invocations : command_invocations[j].success}}

\* get_command_stats(command_id): one id (its text spliced into the
\* statement), or every id, ORDER BY hit_count DESC.
get_command_stats(command_id) ==
    /\ IF command_id = None
       THEN \E order \in TieOrders(SuccessfulIds) :
              /\ \A i, j \in DOMAIN order :
                    i < j => CommandStats(order[i]).hit_count
                               >= CommandStats(order[j]).hit_count
              /\ ret' = Returned("get_command_stats", TRUE,
                              [i \in DOMAIN order |-> CommandStats(order[i])])
       ELSE LET literal == PreparedLiteral(command_id[1])
            IN  ret' = [Returned("get_command_stats", literal.ok,
                                 IF literal.ok /\ literal.value \in SuccessfulIds
                                 THEN <<CommandStats(literal.value)>>
                                 ELSE << >>)
                        EXCEPT !.arg = command_id]
    /\ effect' = NoEffect
    /\ calls' = calls + 1
    /\ UNCHANGED <<window_count, windows, schema, command_invocations, recent_queries, recent_resources,
                   command_patterns, next_rowid, now, deleted, connections, pc, local>>

-----------------------------------------------------------------------------
(* Pattern miner.                                                           *)

\* An f64 the code computes from integers, kept exact as a fraction in lowest
\* terms with a positive denominator.
RECURSIVE Gcd(_, _)
Gcd(a, b) == IF b = 0 THEN a ELSE Gcd(b, a % b)

Abs(x) == IF x < 0 THEN -x ELSE x

Ratio(n, d) ==
    LET g == Gcd(Abs(n), Abs(d))
        sign == IF d < 0 THEN -1 ELSE 1
    IN  <<sign * (n \div g), sign * (d \div g)>>

RatioLess(a, b) == a[1] * b[2] < b[1] * a[2]

RatioMin(a, b) == IF RatioLess(b, a) THEN b ELSE a

RatioMax(a, b) == IF RatioLess(a, b) THEN b ELSE a

RatioAdd(a, b) == Ratio(a[1] * b[2] + b[1] * a[2], a[2] * b[2])

RatioMul(a, b) == Ratio(a[1] * b[1], a[2] * b[2])

\* Rust's integer division, which truncates toward zero.
TruncDiv(a, b) == IF a >= 0 THEN a \div b ELSE -((-a) \div b)

\* Seconds of a day (chrono's Duration::num_days).
SecondsPerDay == 86400

\* LIMIT 1000 of the miner's history query.
HistoryLimit == 1000

\* The separator of sequence.join(" -> ").
Separator == <<" ", "-", ">", " ">>

RECURSIVE Join(_, _)
Join(sequence, sep) ==
    IF sequence = << >> THEN << >>
    ELSE IF Len(sequence) = 1 THEN sequence[1]
    ELSE sequence[1] \o sep \o Join(Tail(sequence), sep)

Reverse(s) == [i \in 1..Len(s) |-> s[Len(s) + 1 - i]]

\* The history query without its WHERE success = 1.
InvocationRows ==
    {[rowid |-> i, command_id |-> command_invocations[i].command_id,
      timestamp |-> command_invocations[i].timestamp] :
        i \in DOMAIN command_invocations}

\* The successful invocations, as the rows the history query selects from.
SuccessfulRows ==
    {[rowid |-> i, command_id |-> command_invocations[i].command_id,
      timestamp |-> command_invocations[i].timestamp] :
        i \in {j \in DOMAIN command_invocations : command_invocations[j].success}}

\* The possible values of `commands` after the reversal: the 1000 newest
\* successful invocations, oldest first.
ChronologicalCommands ==
    UNION {{Reverse(order) : order \in OrderByTimestampDesc(top)} :
             top \in TopByTimestamp(SuccessfulRows, HistoryLimit)}

\* a.saturating_sub(b) on usize.
SaturatingSub(a, b) == IF a >= b THEN a - b ELSE 0

\* The window positions 0 .. len.saturating_sub(seq_len) - 1 of one length.
Positions(len, seq_len) == 0 .. (SaturatingSub(len, seq_len) - 1)

\* The window at 0-based position i: commands[i..i + seq_len].
Window(commands, i, seq_len) == SubSeq(commands, i + 1, i + seq_len)

\* time_diffs of the window: (t2 - t1).num_seconds() of each neighbouring pair.
TimeDiffs(window) ==
    [j \in 1..(Len(window) - 1) |-> window[j + 1].timestamp - window[j].timestamp]

\* pattern_map.entry(pattern_id).and_modify(extend times).or_insert(...)
Accumulate(pattern_map, window) ==
    LET sequence == [j \in 1..Len(window) |-> window[j].command_id]
        pattern_id == Join(sequence, Separator)
    IN  IF pattern_id \in DOMAIN pattern_map
        THEN [pattern_map EXCEPT ![pattern_id].times = @ \o TimeDiffs(window)]
        ELSE [id \in DOMAIN pattern_map \cup {pattern_id} |->
                IF id = pattern_id
                THEN [sequence |-> sequence, times |-> TimeDiffs(window),
                      last_seen |-> window[Len(window)].timestamp]
                ELSE pattern_map[id]]

\* for i in 0..commands.len().saturating_sub(seq_len), from position i on.
\* TLC evaluates an operator's arguments when they are first read; the
\* comparison has it build the map of each step before the next one, as the
\* loop does, instead of nesting the steps of a long history.
RECURSIVE SlideFrom(_, _, _, _)
SlideFrom(pattern_map, commands, seq_len, i) ==
    IF i \notin Positions(Len(commands), seq_len) THEN pattern_map
    ELSE LET accumulated == Accumulate(pattern_map, Window(commands, i, seq_len))
         IN  IF accumulated = accumulated
             THEN SlideFrom(accumulated, commands, seq_len, i + 1)
             ELSE pattern_map

\* for seq_len in min_sequence_length..=max_sequence_length, from seq_len on.
RECURSIVE MineFrom(_, _, _, _)
MineFrom(pattern_map, commands, seq_len, max_sequence_length) ==
    IF seq_len > max_sequence_length THEN pattern_map
    ELSE LET slid == SlideFrom(pattern_map, commands, seq_len, 0)
         IN  IF slid = slid
             THEN MineFrom(slid, commands, seq_len + 1, max_sequence_length)
             ELSE pattern_map

EmptyMap == [id \in {} |-> 0]

PatternMap(commands, min_sequence_length, max_sequence_length) ==
    MineFrom(EmptyMap, commands, min_sequence_length, max_sequence_length)

\* frequency = time_diffs.len() / (sequence.len() - 1).max(1)
Frequency(entry) == Len(entry.times) \div Max(Len(entry.sequence) - 1, 1)

\* recency_factor, for a last_seen that parses: (1 / (1 + days_ago / 30)).max(0.1).
\* 1.0 / 0.0 is f64's infinity; it is kept as a number the final min cuts.
RecencyFactor(last_seen, clock) ==
    LET days_ago == TruncDiv(clock - last_seen, SecondsPerDay)
    IN  IF 30 + days_ago = 0 THEN <<1000, 1>>
        ELSE RatioMax(Ratio(30, 30 + days_ago), <<1, 10>>)

\* frequency_factor = (frequency / 20).min(1.0)
FrequencyFactor(frequency) == RatioMin(Ratio(frequency, 20), <<1, 1>>)

\* The blend without its final min.
ConfidenceUnclamped(frequency, last_seen, clock) ==
    RatioAdd(RatioMul(FrequencyFactor(frequency), <<7, 10>>),
             RatioMul(RecencyFactor(last_seen, clock), <<3, 10>>))

\* The blend with its two weights exchanged.
ConfidenceRecencyWeighted(frequency, last_seen, clock) ==
    RatioMin(RatioAdd(RatioMul(FrequencyFactor(frequency), <<3, 10>>),
                      RatioMul(RecencyFactor(last_seen, clock), <<7, 10>>)),
             <<1, 1>>)

\* confidence = (frequency_factor * 0.7 + recency_factor * 0.3).min(1.0)
Confidence(frequency, last_seen, clock) ==
    RatioMin(RatioAdd(RatioMul(FrequencyFactor(frequency), <<7, 10>>),
                      RatioMul(RecencyFactor(last_seen, clock), <<3, 10>>)),
             <<1, 1>>)

SumSeq(s) ==
    LET RECURSIVE Sum(_)
        Sum(i) == IF i = 0 THEN 0 ELSE s[i] + Sum(i - 1)
    IN  Sum(Len(s))

\* serde_json::to_string(&Vec<String>): ["a","b"], with \" and \\ escaped.
DoubleQuote == "\""

Backslash == "\\"

RECURSIVE JsonEscape(_)
JsonEscape(chars) ==
    IF chars = << >> THEN << >>
    ELSE (IF Head(chars) \in {DoubleQuote, Backslash}
          THEN <<Backslash, Head(chars)>> ELSE <<Head(chars)>>)
         \o JsonEscape(Tail(chars))

ToJson(sequence) ==
    <<"[">> \o Join([i \in 1..Len(sequence) |->
                        <<DoubleQuote>> \o JsonEscape(sequence[i]) \o <<DoubleQuote>>],
                    <<",">>)
           \o <<"]">>

\* The threshold with the comparison one too low.
RecursOrOccursOnce(entry) == Frequency(entry) >= 1

\* if frequency < 2 { continue; }: the entries that go on to be scored.
Recurs(entry) == Frequency(entry) >= 2

\* The CommandPattern detect_patterns builds of one entry of pattern_map.
DetectedPattern(pattern_id, entry, clock) ==
    [pattern_id |-> pattern_id,
     command_sequence |-> entry.sequence,
     frequency |-> Frequency(entry),
     confidence |-> Confidence(Frequency(entry), entry.last_seen, clock),
     last_seen |-> clock,
     avg_time_between_commands |->
        IF entry.times # << >> THEN Some(Ratio(SumSeq(entry.times), Len(entry.times)))
        ELSE None]

\* The upsert with a frequency that adds up over the runs.
UpsertPatternsIncrementing(rows, detected) ==
    {IF \E d \in detected : d.pattern_id = r.pattern_id
     THEN LET d == CHOOSE d \in detected : d.pattern_id = r.pattern_id
          IN  [r EXCEPT !.frequency = r.frequency + d.frequency,
                        !.confidence = d.confidence,
                        !.last_seen = d.last_seen,
                        !.avg_time_between_commands = d.avg_time_between_commands]
     ELSE r : r \in rows}
    \cup {[d EXCEPT !.command_sequence = ToJson(d.command_sequence)] :
            d \in {e \in detected : \A r \in rows : r.pattern_id # e.pattern_id}}

\* INSERT INTO command_patterns ... ON CONFLICT(pattern_id) DO UPDATE SET
\*   frequency, confidence, last_seen, avg_time_between_commands
\* for every detected pattern: a row that exists keeps its command_sequence.
UpsertPatterns(rows, detected) ==
    {IF \E d \in detected : d.pattern_id = r.pattern_id
     THEN LET d == CHOOSE d \in detected : d.pattern_id = r.pattern_id
          IN  [r EXCEPT !.frequency = d.frequency, !.confidence = d.confidence,
                        !.last_seen = d.last_seen,
                        !.avg_time_between_commands = d.avg_time_between_commands]
     ELSE r : r \in rows}
    \cup {[d EXCEPT !.command_sequence = ToJson(d.command_sequence)] :
            d \in {e \in detected : \A r \in rows : r.pattern_id # e.pattern_id}}

\* detect_patterns(min_sequence_length, max_sequence_length).  The clock
\* reads of one call are taken at one instant.  The returned Vec comes in the
\* HashMap's iteration order; it is kept as the set of its elements.
detect_patterns(min_sequence_length, max_sequence_length, dt) ==
    /\ now + dt >= 0
    /\ \E commands \in ChronologicalCommands :
         IF Len(commands) < min_sequence_length
         THEN /\ ret' = [Returned("detect_patterns", TRUE, {}) EXCEPT
                           !.arg = <<min_sequence_length, max_sequence_length>>]
              /\ UNCHANGED <<command_patterns, now>>
         ELSE IF min_sequence_length = 0 /\ commands # << >>
         \* seq_len - 1 underflows: a panic in a debug build, and in a
         \* release build an index past the end of commands, a panic too
         THEN /\ ret' = [Returned("detect_patterns", FALSE, {}) EXCEPT
                           !.panic = TRUE,
                           !.arg = <<min_sequence_length, max_sequence_length>>]
              /\ UNCHANGED <<command_patterns, now>>
         ELSE LET pattern_map == PatternMap(commands, Max(min_sequence_length, 1),
                                            max_sequence_length)
                  detected == {DetectedPattern(id, pattern_map[id], now + dt) :
                                 id \in {i \in DOMAIN pattern_map :
                                           Recurs(pattern_map[i])}}
              IN  /\ command_patterns' = UpsertPatterns(command_patterns, detected)
                  /\ ret' = [Returned("detect_patterns", TRUE, detected) EXCEPT
                               !.arg = <<min_sequence_length, max_sequence_length>>]
                  /\ now' = now + dt
    /\ effect' = [NoEffect EXCEPT
                    !.rerun = /\ ret.op = "detect_patterns"
                              /\ ret.ok
                              /\ ret.arg = <<min_sequence_length, max_sequence_length>>]
    /\ calls' = calls + 1
    /\ UNCHANGED <<window_count, windows, schema, command_invocations, recent_queries, recent_resources,
                   next_rowid, deleted, connections, pc, local>>

-----------------------------------------------------------------------------
(* Suggestion engine.                                                       *)

Whitespace == {" "}

RECURSIVE SkipWhitespace(_, _)
SkipWhitespace(text, i) ==
    IF i <= Len(text) /\ text[i] \in Whitespace THEN SkipWhitespace(text, i + 1) ELSE i

\* A JSON string from the character after its opening quote: its value and
\* the position after its closing quote, or position 0 when it does not end.
RECURSIVE ParseString(_, _, _)
ParseString(text, i, value) ==
    IF i > Len(text) THEN [next |-> 0, value |-> value]
    ELSE IF text[i] = DoubleQuote THEN [next |-> i + 1, value |-> value]
    ELSE IF text[i] = Backslash
         THEN IF i < Len(text) /\ text[i + 1] \in {DoubleQuote, Backslash}
              THEN ParseString(text, i + 2, Append(value, text[i + 1]))
              ELSE [next |-> 0, value |-> value]
    ELSE ParseString(text, i + 1, Append(value, text[i]))

\* The elements of a JSON array of strings from position i, after "[" or ",".
RECURSIVE ParseElements(_, _, _)
ParseElements(text, i, parsed) ==
    LET at == SkipWhitespace(text, i)
    IN  IF at > Len(text) \/ text[at] # DoubleQuote THEN [ok |-> FALSE, value |-> << >>]
        ELSE LET str == ParseString(text, at + 1, << >>)
                 after == SkipWhitespace(text, str.next)
             IN  IF str.next = 0 \/ after > Len(text) THEN [ok |-> FALSE, value |-> << >>]
                 ELSE IF text[after] = ","
                      THEN ParseElements(text, after + 1, Append(parsed, str.value))
                 ELSE IF text[after] = "]" /\ SkipWhitespace(text, after + 1) > Len(text)
                      THEN [ok |-> TRUE, value |-> Append(parsed, str.value)]
                 ELSE [ok |-> FALSE, value |-> << >>]

\* serde_json::from_str::<Vec<String>>(text).unwrap_or_default()
FromJson(text) ==
    LET open == SkipWhitespace(text, 1)
        first == SkipWhitespace(text, open + 1)
    IN  IF open > Len(text) \/ text[open] # "[" THEN << >>
        ELSE IF first <= Len(text) /\ text[first] = "]"
             THEN << >>
        ELSE ParseElements(text, open + 1, << >>).value

\* The rows as get_pattern_suggestions loads them:
\*   (pattern_id, command_sequence, frequency, confidence)
LoadedPattern(row) ==
    [pattern_id |-> row.pattern_id, sequence |-> FromJson(row.command_sequence),
     frequency |-> row.frequency, confidence |-> row.confidence]

\* The possible orders of ORDER BY confidence DESC.
RECURSIVE OrderByConfidenceDesc(_)
OrderByConfidenceDesc(rows) ==
    IF rows = {} THEN {<< >>}
    ELSE LET top == {r \in rows :
                       \A q \in rows : ~RatioLess(r.confidence, q.confidence)}
         IN  {p \o s : p \in TieOrders(top), s \in OrderByConfidenceDesc(rows \ top)}

\* The entry update without its comparison: the pattern seen last wins.
SuggestLatest(suggestions, next_command, pattern) ==
    [c \in DOMAIN suggestions \cup {next_command} |->
        IF c = next_command
        THEN [confidence |-> pattern.confidence, frequency |-> pattern.frequency,
              pattern_id |-> pattern.pattern_id]
        ELSE suggestions[c]]

\* suggestions.entry(next_command).and_modify(...).or_insert(...)
Suggest(suggestions, next_command, pattern) ==
    IF next_command \in DOMAIN suggestions
    THEN IF RatioLess(suggestions[next_command].confidence, pattern.confidence)
         THEN [suggestions EXCEPT ![next_command].confidence = pattern.confidence,
                                  ![next_command].frequency = pattern.frequency]
         ELSE suggestions
    ELSE [c \in DOMAIN suggestions \cup {next_command} |->
            IF c = next_command
            THEN [confidence |-> pattern.confidence, frequency |-> pattern.frequency,
                  pattern_id |-> pattern.pattern_id]
            ELSE suggestions[c]]

\* The window taken from the oldest end of last_commands.
UserWindowOldest(last_commands, window_size) ==
    SubSeq(last_commands, 1, Min(window_size, Len(last_commands)))

\* &last_commands[last_commands.len().saturating_sub(window_size)..]
UserWindow(last_commands, window_size) ==
    SubSeq(last_commands, SaturatingSub(Len(last_commands), window_size) + 1,
           Len(last_commands))

\* for window_size in from..=upto, of one pattern.
RECURSIVE MatchWindows(_, _, _, _, _)
MatchWindows(suggestions, pattern, last_commands, window_size, upto) ==
    IF window_size > upto THEN suggestions
    ELSE MatchWindows(
            IF /\ Len(pattern.sequence) > window_size
               /\ SubSeq(pattern.sequence, 1, window_size)
                    = UserWindow(last_commands, window_size)
            THEN Suggest(suggestions, pattern.sequence[window_size + 1], pattern)
            ELSE suggestions,
            pattern, last_commands, window_size + 1, upto)

\* sequence.len() - 1 on usize, in a release build: an empty sequence wraps
\* to usize::MAX.  It is held here at the largest integer TLC has; the code
\* only takes its minimum with a length.
UsizeMax == 2147483647

WrappingPred(n) == IF n = 0 THEN UsizeMax ELSE n - 1

\* for (pattern_id, sequence, frequency, confidence) in patterns, from the
\* i-th on.
RECURSIVE MatchPatterns(_, _, _, _)
MatchPatterns(suggestions, patterns, last_commands, i) ==
    IF i > Len(patterns) THEN suggestions
    ELSE MatchPatterns(
            MatchWindows(suggestions, patterns[i], last_commands, 1,
                         Min(Len(last_commands), WrappingPred(Len(patterns[i].sequence)))),
            patterns, last_commands, i + 1)

PatternSuggestion(next_command, best) ==
    [next_command |-> next_command, confidence |-> best.confidence,
     pattern_frequency |-> best.frequency, context |-> best.pattern_id]

\* The map collected and truncated without the sort.
SortedSuggestionsUnordered(suggestions, limit) ==
    LET all == {PatternSuggestion(c, suggestions[c]) : c \in DOMAIN suggestions}
    IN  {SubSeq(s, 1, Min(limit, Len(s))) : s \in TieOrders(all)}

\* The possible results of collecting the map into a Vec (in the HashMap's
\* order), the stable sort by confidence descending, and truncate(limit).
SortedSuggestions(suggestions, limit) ==
    LET all == {PatternSuggestion(c, suggestions[c]) : c \in DOMAIN suggestions}
    IN  {SubSeq(s, 1, Min(limit, Len(s))) : s \in OrderByConfidenceDesc(all)}

\* What get_pattern_suggestions can return.  An empty sequence (a malformed
\* command_sequence) makes sequence.len() - 1 overflow: a panic in a build
\* with overflow checks, a wrap without.
SuggestionOutcomes(rows, last_commands, limit) ==
    LET loaded == {LoadedPattern(r) : r \in rows}
        results == UNION {SortedSuggestions(
                              MatchPatterns(EmptyMap, patterns, last_commands, 1), limit) :
                            patterns \in OrderByConfidenceDesc(loaded)}
    IN  {Returned("get_pattern_suggestions", TRUE, list) : list \in results}
        \cup IF \E p \in loaded : p.sequence = << >>
             THEN {[Returned("get_pattern_suggestions", FALSE, << >>)
                      EXCEPT !.panic = TRUE]}
             ELSE {}

get_pattern_suggestions(last_commands, limit) ==
    /\ \E outcome \in SuggestionOutcomes(command_patterns, last_commands, limit) :
         ret' = [outcome EXCEPT !.arg = <<last_commands, limit>>]
    /\ effect' = NoEffect
    /\ calls' = calls + 1
    /\ UNCHANGED <<window_count, windows, schema, command_invocations, recent_queries, recent_resources,
                   command_patterns, next_rowid, now, deleted, connections, pc, local>>

-----------------------------------------------------------------------------
(* Pattern listing.                                                         *)

\* Row a comes before row b under ORDER BY confidence DESC, frequency DESC.
RanksAbove(a, b) ==
    \/ RatioLess(b.confidence, a.confidence)
    \/ a.confidence = b.confidence /\ a.frequency > b.frequency

\* The rows in any order: the statement without its ORDER BY.
OrderPatternsUnordered(rows) == TieOrders(rows)

\* The possible orders of ORDER BY confidence DESC, frequency DESC.
RECURSIVE OrderPatterns(_)
OrderPatterns(rows) ==
    IF rows = {} THEN {<< >>}
    ELSE LET top == {r \in rows : \A q \in rows : ~RanksAbove(q, r)}
         IN  {p \o s : p \in TieOrders(top), s \in OrderPatterns(rows \ top)}

\* The CommandPattern get_patterns builds of a row.
CommandPattern(row) ==
    [pattern_id |-> row.pattern_id,
     command_sequence |-> FromJson(row.command_sequence),
     frequency |-> row.frequency,
     confidence |-> row.confidence,
     last_seen |-> row.last_seen,
     avg_time_between_commands |-> row.avg_time_between_commands]

\* get_patterns(min_confidence, limit)
get_patterns(min_confidence, limit) ==
    /\ LET selected == {r \in command_patterns :
                          ~RatioLess(r.confidence, min_confidence)}
       IN  \E order \in OrderPatterns(selected) :
             ret' = [Returned("get_patterns", TRUE,
                              [i \in 1..Min(limit, Len(order)) |->
                                 CommandPattern(order[i])])
                       EXCEPT !.arg = <<min_confidence, limit>>]
    /\ effect' = NoEffect
    /\ calls' = calls + 1
    /\ UNCHANGED <<window_count, windows, schema, command_invocations, recent_queries, recent_resources,
                   command_patterns, next_rowid, now, deleted, connections, pc, local>>

-----------------------------------------------------------------------------
(* Retention sweep.                                                         *)

RetentionDays == 90

\* A sweep that also deletes the rows exactly at the cutoff.
SweptThroughCutoff(rows, cutoff) == SelectSeq(rows, LAMBDA r : r.timestamp > cutoff)

\* DELETE FROM command_invocations WHERE timestamp < ?1: the rows left.  The
\* column holds to_rfc3339() of UTC instants, text whose order is the order
\* of the instants.
Swept(rows, cutoff) == SelectSeq(rows, LAMBDA r : ~(r.timestamp < cutoff))

\* A sweep that purges the patterns last seen before the cutoff as well.
cleanup_old_data_and_patterns(dt) ==
    /\ now + dt >= 0
    /\ now' = now + dt
    /\ LET cutoff_date == (now + dt) - RetentionDays * SecondsPerDay
       IN  /\ command_invocations' = Swept(command_invocations, cutoff_date)
           /\ command_patterns' = {r \in command_patterns : r.last_seen >= cutoff_date}
    /\ ret' = Returned("cleanup_old_data", TRUE, << >>)
    /\ effect' = NoEffect
    /\ calls' = calls + 1
    /\ UNCHANGED <<window_count, windows, schema, recent_queries, recent_resources, next_rowid,
                   deleted, connections, pc, local>>

\* cleanup_old_data()
cleanup_old_data(dt) ==
    /\ now + dt >= 0
    /\ now' = now + dt
    /\ LET cutoff_date == (now + dt) - RetentionDays * SecondsPerDay
       IN  command_invocations' = Swept(command_invocations, cutoff_date)
    /\ ret' = Returned("cleanup_old_data", TRUE, << >>)
    /\ effect' = NoEffect
    /\ calls' = calls + 1
    /\ UNCHANGED <<window_count, windows, schema, recent_queries, recent_resources, command_patterns, next_rowid,
                   deleted, connections, pc, local>>

-----------------------------------------------------------------------------
(* The Tauri commands, as the async runtime runs them: each request handler *)
(* runs its command on its own thread, a statement at a time.  SQLite makes *)
(* each statement atomic; nothing but the Mutex<Connection> of the          *)
(* CommandPaletteDb a method is called on spans two statements.             *)

\* The statements of initialize(), in order: what each creates.
SchemaStatements ==
    <<[type |-> "table", name |-> "command_invocations", tbl_name |-> "command_invocations"],
      [type |-> "table", name |-> "recent_queries", tbl_name |-> "recent_queries"],
      [type |-> "table", name |-> "recent_resources", tbl_name |-> "recent_resources"],
      [type |-> "table", name |-> "command_patterns", tbl_name |-> "command_patterns"],
      [type |-> "index", name |-> "idx_command_id", tbl_name |-> "command_invocations"],
      [type |-> "index", name |-> "idx_timestamp", tbl_name |-> "command_invocations"],
      [type |-> "index", name |-> "idx_recent_queries_timestamp", tbl_name |-> "recent_queries"],
      [type |-> "index", name |-> "idx_recent_resources_timestamp", tbl_name |-> "recent_resources"],
      [type |-> "index", name |-> "idx_recent_resources_kind", tbl_name |-> "recent_resources"],
      [type |-> "index", name |-> "idx_patterns_confidence", tbl_name |-> "command_patterns"],
      [type |-> "index", name |-> "idx_patterns_last_seen", tbl_name |-> "command_patterns"]>>

\* A CREATE that does not look for the name first.
CreateAlways(master, object) == Append(master, object)

\* CREATE TABLE / INDEX IF NOT EXISTS: nothing when the name is in use.
CreateIfNotExists(master, object) ==
    IF \E i \in DOMAIN master : master[i].name = object.name
    THEN master
    ELSE Append(master, object)

\* initialize(): its eleven statements, each on the result of the one before.
initialize(master) ==
    LET RECURSIVE Run(_, _)
        Run(m, i) ==
            IF i > Len(SchemaStatements) THEN m
            ELSE Run(CreateIfNotExists(m, SchemaStatements[i]), i + 1)
    IN  Run(master, 1)

Handlers == {"h1", "h2"}

NoCommand == [op |-> "none", conn |-> 0, limit |-> 0, key |-> NoKey, query |-> "",
              touched |-> {}]

\* The command's first line, CommandPaletteDb::new(&app): Connection::open on
\* the store's path, a new Mutex around the connection, and initialize(),
\* which creates what is absent from the store (nothing, of a store that was
\* opened before).
CommandPaletteDb_new(h, op, limit, key, query) ==
    /\ pc[h] = "idle"
    /\ calls < MaxCalls
    /\ calls' = calls + 1
    /\ local' = [local EXCEPT ![h] = [op |-> op, conn |-> calls + 1, limit |-> limit,
                                      key |-> key, query |-> query, touched |-> {}]]
    /\ connections' = connections \cup {[id |-> calls + 1, locked |-> FALSE]}
    /\ pc' = [pc EXCEPT ![h] = "opened"]
    /\ schema' = initialize(schema)
    /\ UNCHANGED <<window_count, windows, command_invocations, recent_queries,
                   recent_resources, command_patterns, next_rowid, now, ret, effect,
                   deleted>>

\* self.conn.lock().unwrap(): the mutex of the handler's own CommandPaletteDb.
conn_lock(h) ==
    /\ pc[h] = "opened"
    /\ \E c \in connections :
         /\ c.id = local[h].conn
         /\ ~c.locked
         /\ connections' = (connections \ {c}) \cup {[c EXCEPT !.locked = TRUE]}
    /\ pc' = [pc EXCEPT ![h] = "locked"]
    /\ UNCHANGED <<window_count, windows, schema, command_invocations, recent_queries, recent_resources,
                   command_patterns, next_rowid, now, ret, effect, calls, deleted, local>>

\* The command returns: the guard and the CommandPaletteDb are dropped.
Dropped(h) == {c \in connections : c.id # local[h].conn}

\* record_query's first statement: Utc::now() and the INSERT.
record_query_insert(h, dt) ==
    /\ pc[h] = "locked" /\ local[h].op = "record_search_query"
    /\ now + dt >= 0
    /\ now' = now + dt
    /\ recent_queries' = recent_queries \cup
          {[id |-> next_rowid.recent_queries, query |-> local[h].query,
            timestamp |-> now + dt, result_count |-> 0]}
    /\ next_rowid' = [next_rowid EXCEPT !.recent_queries = @ + 1]
    /\ local' = [local EXCEPT ![h].touched = {next_rowid.recent_queries}]
    /\ pc' = [pc EXCEPT ![h] = "inserted"]
    /\ UNCHANGED <<window_count, windows, schema, command_invocations, recent_resources, command_patterns, ret,
                   effect, calls, deleted, connections>>

\* record_query's second statement, the retention trim, and the return.
record_query_trim(h) ==
    /\ pc[h] = "inserted" /\ local[h].op = "record_search_query"
    /\ \E kept \in RetentionTrim(recent_queries) :
         /\ recent_queries' = kept
         /\ effect' = [NoEffect EXCEPT !.touched = local[h].touched,
                                        !.evicted = recent_queries \ kept,
                                        !.inserted = TRUE]
         /\ deleted' = [deleted EXCEPT !.recent_queries = @ \cup (recent_queries \ kept)]
    /\ ret' = Returned("record_query", TRUE, << >>)
    /\ connections' = Dropped(h)
    /\ pc' = [pc EXCEPT ![h] = "idle"]
    /\ local' = [local EXCEPT ![h] = NoCommand]
    /\ UNCHANGED <<window_count, windows, schema, command_invocations, recent_resources, command_patterns,
                   next_rowid, now, calls>>

\* get_recent_queries' one statement, and the return.
get_recent_queries_select(h) ==
    /\ pc[h] = "locked" /\ local[h].op = "get_recent_queries"
    /\ \E top \in TopByTimestamp(recent_queries, local[h].limit) :
         \E rows \in OrderByTimestampDesc(top) :
           ret' = Returned("get_recent_queries", TRUE,
                            [i \in 1..Len(rows) |-> RecentQuery(rows[i])])
    /\ effect' = NoEffect
    /\ connections' = Dropped(h)
    /\ pc' = [pc EXCEPT ![h] = "idle"]
    /\ local' = [local EXCEPT ![h] = NoCommand]
    /\ UNCHANGED <<window_count, windows, schema, command_invocations, recent_queries, recent_resources,
                   command_patterns, next_rowid, now, calls, deleted>>

\* record_resource_access' first statement: Utc::now() and the upsert.
record_resource_access_upsert(h, dt) ==
    /\ pc[h] = "locked" /\ local[h].op = "record_resource_access"
    /\ now + dt >= 0
    /\ now' = now + dt
    /\ LET upserted == UpsertResource(recent_resources, local[h].key, now + dt,
                                      next_rowid.recent_resources)
           isInsert == Cardinality(upserted) > Cardinality(recent_resources)
       IN  /\ recent_resources' = upserted
           /\ next_rowid' = [next_rowid EXCEPT !.recent_resources =
                                IF isInsert THEN @ + 1 ELSE @]
           /\ local' = [local EXCEPT ![h].touched =
                                {r.id : r \in upserted \ recent_resources}]
    /\ pc' = [pc EXCEPT ![h] = "inserted"]
    /\ UNCHANGED <<window_count, windows, schema, command_invocations, recent_queries, command_patterns, ret,
                   effect, calls, deleted, connections>>

\* record_resource_access' second statement, the retention trim, and the return.
record_resource_access_trim(h) ==
    /\ pc[h] = "inserted" /\ local[h].op = "record_resource_access"
    /\ \E kept \in RetentionTrim(recent_resources) :
         /\ recent_resources' = kept
         /\ effect' = [NoEffect EXCEPT !.touched = local[h].touched,
                                        !.evicted = recent_resources \ kept,
                                        !.key = local[h].key]
         /\ deleted' = [deleted EXCEPT !.recent_resources =
                                          @ \cup (recent_resources \ kept)]
    /\ ret' = Returned("record_resource_access", TRUE, << >>)
    /\ connections' = Dropped(h)
    /\ pc' = [pc EXCEPT ![h] = "idle"]
    /\ local' = [local EXCEPT ![h] = NoCommand]
    /\ UNCHANGED <<window_count, windows, schema, command_invocations, recent_queries, command_patterns,
                   next_rowid, now, calls>>

\* get_recent_resources' one statement, and the return.
get_recent_resources_select(h) ==
    /\ pc[h] = "locked" /\ local[h].op = "get_recent_resources"
    /\ \E top \in TopByTimestamp(recent_resources, local[h].limit) :
         \E rows \in OrderByTimestampDesc(top) :
           ret' = Returned("get_recent_resources", TRUE,
                            [i \in 1..Len(rows) |-> ResourceSummary(rows[i])])
    /\ effect' = NoEffect
    /\ connections' = Dropped(h)
    /\ pc' = [pc EXCEPT ![h] = "idle"]
    /\ local' = [local EXCEPT ![h] = NoCommand]
    /\ UNCHANGED <<window_count, windows, schema, command_invocations, recent_queries, recent_resources,
                   command_patterns, next_rowid, now, calls, deleted>>

-----------------------------------------------------------------------------
(* The store when a session opens it, and the specifications.               *)

\* format!("main-{}", *count)
WindowLabel(count) == "main-" \o ToString(count)

\* create_window_internal: the counter is incremented and gives the label;
\* WebviewWindowBuilder::build fails for a label that an open window has.
create_window_internal ==
    /\ window_count' = window_count + 1
    /\ IF WindowLabel(window_count + 1) \in windows
       THEN /\ ret' = [Returned("create_window_internal", FALSE, << >>) EXCEPT
                         !.arg = WindowLabel(window_count + 1)]
            /\ UNCHANGED windows
       ELSE /\ ret' = [Returned("create_window_internal", TRUE, << >>) EXCEPT
                         !.arg = WindowLabel(window_count + 1)]
            /\ windows' = windows \cup {WindowLabel(window_count + 1)}
    /\ effect' = NoEffect
    /\ calls' = calls + 1
    /\ UNCHANGED <<schema, command_invocations, recent_queries, recent_resources,
                   command_patterns, next_rowid, now, deleted, connections, pc, local>>

\* on_window_event, WindowEvent::CloseRequested of an open window: the
\* counter is decremented if positive, and the window closes.
on_window_event(label) ==
    /\ label \in windows
    /\ window_count' = IF window_count > 0 THEN window_count - 1 ELSE window_count
    /\ windows' = windows \ {label}
    /\ ret' = [Returned("on_window_event", TRUE, << >>) EXCEPT !.arg = label]
    /\ effect' = NoEffect
    /\ calls' = calls + 1
    /\ UNCHANGED <<schema, command_invocations, recent_queries, recent_resources,
                   command_patterns, next_rowid, now, deleted, connections, pc, local>>

\* The application after setup: the initial window is open.
AppStarted ==
    /\ window_count = 1
    /\ windows = {WindowLabel(1)}

\* The store's tables and the history variables at the start of a run.
InitTables(nq, nr) ==
    /\ command_invocations = << >>
    /\ recent_queries = PrefilledQueries(nq)
    /\ recent_resources = PrefilledResources(nr)
    /\ command_patterns = {}
    /\ next_rowid = [recent_queries |-> nq + 1, recent_resources |-> nr + 1]
    /\ now = Max(nq, nr)
    /\ ret = Idle
    /\ effect = NoEffect
    /\ calls = 0
    /\ deleted = [recent_queries |-> {}, recent_resources |-> {}]
    /\ connections = {}
    /\ pc = [h \in Handlers |-> "idle"]
    /\ local = [h \in Handlers |-> NoCommand]

\* A store that CommandPaletteDb::new has opened before.
InitStore(nq, nr) ==
    /\ InitTables(nq, nr)
    /\ schema = initialize(<< >>)
    /\ AppStarted

InitQueries == \E nq \in {0, PrefillRows} : InitStore(nq, 0)

NextQueries ==
    \/ \E q \in Queries, rc \in ResultCounts, dt \in ClockSteps : record_query(q, rc, dt)
    \/ \E limit \in {2, RetentionLimit + 50} : get_recent_queries(limit)

SpecQueries == InitQueries /\ [][NextQueries]_vars

InitResources == \E nr \in {0, PrefillRows} : InitStore(0, nr)

NextResources ==
    \/ \E key \in ResourceKeys, dt \in ClockSteps : record_resource_access(key, dt)
    \/ \E limit \in {2, RetentionLimit + 50}, kind \in {NULL, "pod"} :
          get_recent_resources(limit, kind)
    \/ \E limit \in {2, RetentionLimit + 50}, kind \in {NULL, "pod"} :
          get_top_resources(limit, kind)

SpecResources == InitResources /\ [][NextResources]_vars

\* Recording under a wall clock that is set back between two calls, to
\* before the oldest row of the store.
SetBackSteps == {1, -(PrefillRows + 1)}

InitSetBack == InitStore(PrefillRows, PrefillRows)

NextSetBack ==
    \/ \E q \in Queries, rc \in ResultCounts, dt \in SetBackSteps : record_query(q, rc, dt)
    \/ \E key \in ResourceKeys, dt \in SetBackSteps : record_resource_access(key, dt)

SpecSetBack == InitSetBack /\ [][NextSetBack]_vars

\* The windows of one session: tauri::Builder manages AppState with
\* window_count 0, setup creates the initial window, and the user opens and
\* closes windows.
MaxWindowCalls == 8

InitWindows ==
    /\ InitTables(0, 0)
    /\ schema = << >>
    /\ window_count = 0
    /\ windows = {}

NextWindows ==
    \/ /\ calls < MaxWindowCalls
       /\ create_window_internal
    \/ /\ calls < MaxWindowCalls
       /\ \E label \in windows : on_window_event(label)

SpecWindows == InitWindows /\ [][NextWindows]_vars

\* Command ids of the statistics runs: a plain one and two with apostrophes.
StatIds == {<<"A">>, <<Quote>>, <<Quote, Quote>>}

ExecutionTimes == {None, Some(100), Some(200)}

InitStats == InitStore(0, 0)

NextStats ==
    \/ /\ calls < MaxCalls
       /\ \E id \in StatIds, ms \in ExecutionTimes, success \in BOOLEAN :
            record_invocation(id, ms, success,
                              IF success THEN NULL ELSE "failed", NULL, 1)
    \/ /\ calls <= MaxCalls
       /\ \E id \in {Some(c) : c \in StatIds} \cup {None} : get_command_stats(id)

SpecStats == InitStats /\ [][NextStats]_vars

\* Invocations in the history of a mining run, and calls of the miner.
MaxHistory == 6

MaxDetects == 2

MineIds == {<<"X">>, <<"Y", DoubleQuote>>}

InitMine == InitStore(0, 0)

NextMine ==
    \/ /\ Len(command_invocations) < MaxHistory
       /\ \E id \in MineIds :
            record_invocation(id, None, TRUE, NULL, NULL, 1)
    \/ /\ calls - Len(command_invocations) < MaxDetects
       /\ \E lens \in {<<2, 2>>, <<2, 3>>, <<1, 2>>, <<3, 2>>}, dt \in {1, 40 * SecondsPerDay} :
            detect_patterns(lens[1], lens[2], dt)

SpecMine == InitMine /\ [][NextMine]_vars

\* Mining runs over the arguments the command accepts: any two usize values.
SequenceLengths == {<<0, 0>>, <<0, 2>>, <<1, 1>>, <<1, 2>>, <<2, 2>>, <<3, 2>>}

InitArguments == InitStore(0, 0)

NextArguments ==
    \/ /\ Len(command_invocations) < MaxHistory
       /\ \E success \in BOOLEAN :
            record_invocation(<<"X">>, None, success,
                              IF success THEN NULL ELSE "failed", NULL, 1)
    \/ /\ calls - Len(command_invocations) < MaxDetects
       /\ \E lens \in SequenceLengths : detect_patterns(lens[1], lens[2], 1)

SpecArguments == InitArguments /\ [][NextArguments]_vars

\* A suggestion run.  The store is a file that outlives the process: the run
\* starts from the history that earlier sessions recorded, one successful
\* invocation a second, as record_invocation writes them.
PrefillHistory == 6

RECURSIVE Histories(_)
Histories(n) ==
    IF n = 0 THEN {<< >>}
    ELSE {Append(h, id) : h \in Histories(n - 1), id \in MineIds}

PrefilledInvocations(history) ==
    [i \in 1..Len(history) |->
       [command_id |-> history[i], timestamp |-> i, execution_time_ms |-> None,
        success |-> TRUE, error_message |-> NULL, context |-> NULL]]

InitSuggest ==
    \E history \in Histories(PrefillHistory) :
        /\ command_invocations = PrefilledInvocations(history)
        /\ recent_queries = {}
        /\ recent_resources = {}
        /\ command_patterns = {}
        /\ next_rowid = [recent_queries |-> 1, recent_resources |-> 1]
        /\ now = Len(history)
        /\ ret = Idle
        /\ effect = NoEffect
        /\ calls = 0
        /\ deleted = [recent_queries |-> {}, recent_resources |-> {}]
        /\ connections = {}
        /\ pc = [h \in Handlers |-> "idle"]
        /\ local = [h \in Handlers |-> NoCommand]
        /\ schema = initialize(<< >>)
        /\ AppStarted

LastCommands ==
    {<< >>} \cup {<<a>> : a \in MineIds} \cup {<<a, b>> : a, b \in MineIds}

SuggestLimits == 0..2

NextSuggest ==
    \/ /\ ret.op # "get_pattern_suggestions"
       /\ Len(command_invocations) <= PrefillHistory
       /\ \E id \in MineIds :
            record_invocation(id, None, TRUE, NULL, NULL, 1)
    \/ /\ ret.op # "get_pattern_suggestions"
       /\ calls - (Len(command_invocations) - PrefillHistory) < MaxDetects
       /\ \E run \in {<<2, 3, 1>>, <<2, 2, 40 * SecondsPerDay>>} :
            detect_patterns(run[1], run[2], run[3])
    \/ /\ ret.op # "get_pattern_suggestions"
       /\ \E last_commands \in LastCommands, limit \in SuggestLimits :
            get_pattern_suggestions(last_commands, limit)

SpecSuggest == InitSuggest /\ [][NextSuggest]_vars

\* A scoring run: the history of earlier sessions is a run of X followed,
\* after a pause, by a run of Y, one invocation a second within a run.
RunLengthsX == {3, 4, 21, 22}

RunLengthsY == {4, 5, 22, 23}

Pauses == {1, 100 * SecondsPerDay, 400 * SecondsPerDay}

TwoRuns(a, b, pause) ==
    [i \in 1..(a + b) |->
       [command_id |-> IF i <= a THEN <<"X">> ELSE <<"Y">>,
        timestamp |-> IF i <= a THEN i ELSE a + pause + (i - a - 1),
        execution_time_ms |-> None,
        success |-> TRUE, error_message |-> NULL, context |-> NULL]]

InitScore ==
    \E a \in RunLengthsX, b \in RunLengthsY, pause \in Pauses :
        /\ command_invocations = TwoRuns(a, b, pause)
        /\ recent_queries = {}
        /\ recent_resources = {}
        /\ command_patterns = {}
        /\ next_rowid = [recent_queries |-> 1, recent_resources |-> 1]
        /\ now = a + pause + b - 1
        /\ ret = Idle
        /\ effect = NoEffect
        /\ calls = 0
        /\ deleted = [recent_queries |-> {}, recent_resources |-> {}]
        /\ connections = {}
        /\ pc = [h \in Handlers |-> "idle"]
        /\ local = [h \in Handlers |-> NoCommand]
        /\ schema = initialize(<< >>)
        /\ AppStarted

NextScore ==
    /\ calls < MaxDetects
    /\ \E lens \in {<<2, 2>>, <<2, 3>>}, dt \in {1, 40 * SecondsPerDay} :
         detect_patterns(lens[1], lens[2], dt)

SpecScore == InitScore /\ [][NextScore]_vars

\* A run on a store file in which the command_sequence of one pattern row is
\* not the JSON the miner wrote: cut short, or empty.
DamagedSequences == {<<"[", DoubleQuote, "X">>, << >>}

DamagedRow(text) ==
    [pattern_id |-> Join(<<<<"X">>, <<"X">>>>, Separator),
     command_sequence |-> text,
     frequency |-> 2,
     confidence |-> <<1, 2>>,
     last_seen |-> 0,
     avg_time_between_commands |-> None]

InitDamaged ==
    \E history \in Histories(PrefillHistory), text \in DamagedSequences :
        /\ command_invocations = PrefilledInvocations(history)
        /\ recent_queries = {}
        /\ recent_resources = {}
        /\ command_patterns = {DamagedRow(text)}
        /\ next_rowid = [recent_queries |-> 1, recent_resources |-> 1]
        /\ now = Len(history)
        /\ ret = Idle
        /\ effect = NoEffect
        /\ calls = 0
        /\ deleted = [recent_queries |-> {}, recent_resources |-> {}]
        /\ connections = {}
        /\ pc = [h \in Handlers |-> "idle"]
        /\ local = [h \in Handlers |-> NoCommand]
        /\ schema = initialize(<< >>)
        /\ AppStarted

NextDamaged ==
    \/ /\ calls < MaxCalls
       /\ detect_patterns(2, 3, 1)
    \/ /\ calls < MaxCalls
       /\ \E last_commands \in LastCommands :
            get_pattern_suggestions(last_commands, 2)
    \/ /\ calls < MaxCalls
       /\ get_patterns(<<0, 1>>, 10)

SpecDamaged == InitDamaged /\ [][NextDamaged]_vars

\* A mining run under a wall clock that was set between the sessions: the
\* history of earlier sessions is mined at a time that is later than it, or
\* earlier (the clock was set back).
Epoch == 60 * SecondsPerDay

ClockSkews == {0, -15 * SecondsPerDay, -30 * SecondsPerDay, -60 * SecondsPerDay}

\* Clock steps to a mining run: a second, or to the second before a whole
\* day has passed since the second invocation of the history.
MiningSteps == {1, SecondsPerDay - 5}

InitClock ==
    \E history \in Histories(PrefillHistory), skew \in ClockSkews :
        /\ command_invocations =
              [i \in 1..Len(history) |->
                 [PrefilledInvocations(history)[i] EXCEPT !.timestamp = Epoch + i]]
        /\ recent_queries = {}
        /\ recent_resources = {}
        /\ command_patterns = {}
        /\ next_rowid = [recent_queries |-> 1, recent_resources |-> 1]
        /\ now = Epoch + Len(history) + skew
        /\ ret = Idle
        /\ effect = NoEffect
        /\ calls = 0
        /\ deleted = [recent_queries |-> {}, recent_resources |-> {}]
        /\ connections = {}
        /\ pc = [h \in Handlers |-> "idle"]
        /\ local = [h \in Handlers |-> NoCommand]
        /\ schema = initialize(<< >>)
        /\ AppStarted

NextClock ==
    /\ calls < MaxDetects
    /\ \E lens \in {<<2, 2>>, <<2, 3>>}, dt \in MiningSteps :
         detect_patterns(lens[1], lens[2], dt)

SpecClock == InitClock /\ [][NextClock]_vars

\* A listing run: command ids may hold the text the miner joins them with.
RoundTripIds == {<<"X">>, Join(<<<<"X">>, <<"X">>>>, Separator)}

RECURSIVE HistoriesOver(_, _)
HistoriesOver(ids, n) ==
    IF n = 0 THEN {<< >>}
    ELSE {Append(h, id) : h \in HistoriesOver(ids, n - 1), id \in ids}

Thresholds == {<<0, 1>>, <<2, 5>>}

ListLimits == {0, 1, 10}

InitRoundTrip ==
    \E history \in HistoriesOver(RoundTripIds, PrefillHistory) :
        /\ command_invocations = PrefilledInvocations(history)
        /\ recent_queries = {}
        /\ recent_resources = {}
        /\ command_patterns = {}
        /\ next_rowid = [recent_queries |-> 1, recent_resources |-> 1]
        /\ now = Len(history)
        /\ ret = Idle
        /\ effect = NoEffect
        /\ calls = 0
        /\ deleted = [recent_queries |-> {}, recent_resources |-> {}]
        /\ connections = {}
        /\ pc = [h \in Handlers |-> "idle"]
        /\ local = [h \in Handlers |-> NoCommand]
        /\ schema = initialize(<< >>)
        /\ AppStarted

NextRoundTrip ==
    \/ /\ ret.op # "get_patterns"
       /\ Len(command_invocations) < PrefillHistory + 2
       /\ \E id \in RoundTripIds :
            record_invocation(id, None, TRUE, NULL, NULL, 1)
    \/ /\ ret.op # "get_patterns"
       /\ calls - (Len(command_invocations) - PrefillHistory) < MaxDetects
       /\ \E len \in {2, 3} : detect_patterns(len, len, 1)
    \/ /\ ret.op # "get_patterns"
       /\ \E min_confidence \in Thresholds, limit \in ListLimits :
            get_patterns(min_confidence, limit)

SpecRoundTrip == InitRoundTrip /\ [][NextRoundTrip]_vars

\* A mining run over command ids that may hold the text the miner joins them
\* with.
InitCollide ==
    \E history \in HistoriesOver(RoundTripIds, PrefillHistory) :
        /\ command_invocations = PrefilledInvocations(history)
        /\ recent_queries = {}
        /\ recent_resources = {}
        /\ command_patterns = {}
        /\ next_rowid = [recent_queries |-> 1, recent_resources |-> 1]
        /\ now = Len(history)
        /\ ret = Idle
        /\ effect = NoEffect
        /\ calls = 0
        /\ deleted = [recent_queries |-> {}, recent_resources |-> {}]
        /\ connections = {}
        /\ pc = [h \in Handlers |-> "idle"]
        /\ local = [h \in Handlers |-> NoCommand]
        /\ schema = initialize(<< >>)
        /\ AppStarted

NextCollide ==
    /\ calls < MaxDetects
    /\ \E lens \in {<<1, 2>>, <<2, 2>>, <<2, 3>>, <<3, 3>>} :
         detect_patterns(lens[1], lens[2], 1)

SpecCollide == InitCollide /\ [][NextCollide]_vars

\* A sweep run: invocations are recorded, some after a long pause, mined,
\* swept and asked about.
MaxSweepCalls == 8

LongPause == 91 * SecondsPerDay

SweepRecords == {<<<<"X">>, TRUE, 1>>, <<<<"X">>, FALSE, 1>>, <<<<"X">>, TRUE, LongPause>>}

InitSweep == InitStore(1, 1)

NextSweep ==
    \/ /\ calls < MaxSweepCalls
       /\ \E r \in SweepRecords :
            record_invocation(r[1], None, r[2], IF r[2] THEN NULL ELSE "failed",
                              NULL, r[3])
    \/ /\ calls < MaxSweepCalls
       /\ \E dt \in {0, RetentionDays * SecondsPerDay} : cleanup_old_data(dt)
    \/ /\ calls < MaxSweepCalls
       /\ detect_patterns(2, 2, 1)
    \/ /\ calls < MaxSweepCalls
       /\ command_patterns # {}
       /\ get_pattern_suggestions(<<<<"X">>>>, 2)

SpecSweep == InitSweep /\ [][NextSweep]_vars

\* An opening run: the request handlers of SpecConcurrent, on a path that
\* holds no store yet or on a store with rows.
InitOpen ==
    \/ InitTables(0, 0) /\ schema = << >> /\ AppStarted
    \/ InitStore(1, 1)

InitConcurrent == InitStore(PrefillRows, PrefillRows)

NextConcurrent ==
    \E h \in Handlers :
        \/ CommandPaletteDb_new(h, "record_search_query", 0, NoKey, "logs")
        \/ CommandPaletteDb_new(h, "get_recent_queries", RetentionLimit + 50, NoKey, "")
        \/ \E key \in {k \in ResourceKeys : k.name = "web"} :
              CommandPaletteDb_new(h, "record_resource_access", 0, key, "")
        \/ CommandPaletteDb_new(h, "get_recent_resources", RetentionLimit + 50, NoKey, "")
        \/ conn_lock(h)
        \/ \E dt \in {0, 1} : record_query_insert(h, dt)
        \/ record_query_trim(h)
        \/ get_recent_queries_select(h)
        \/ \E dt \in {0, 1} : record_resource_access_upsert(h, dt)
        \/ record_resource_access_trim(h)
        \/ get_recent_resources_select(h)

SpecConcurrent == InitConcurrent /\ [][NextConcurrent]_vars

SpecOpen == InitOpen /\ [][NextConcurrent]_vars

-----------------------------------------------------------------------------
(* Claims.                                                                  *)

\* C1: accessing a resource key k times in a row, from its first access and
\* with no eviction of its row, leaves exactly one row for the key, with
\* access_count = k and the timestamp of the last access; this for every key,
\* also one whose namespace or context is absent.
C1_UpsertCountsAccesses ==
    effect.streak > 0 =>
        LET rows == {r \in recent_resources : KeyOf(r) = effect.key}
        IN  /\ Cardinality(rows) = 1
            /\ \A r \in rows : r.access_count = effect.streak /\ r.timestamp = now

\* C2: recent_resources holds at most one row per (kind, name, namespace,
\* context), whatever mix of present and absent namespaces and contexts was
\* accessed.
C2_OneRowPerKey ==
    \A r1, r2 \in recent_resources : KeyOf(r1) = KeyOf(r2) => r1 = r2

\* C3: no operation observes the state between another operation's insert
\* and its retention trim: a get_recent_queries or get_recent_resources with
\* a limit above 100 never returns more than 100 rows.
C3_NoIntermediateStateObserved ==
    ret.op \in {"get_recent_queries", "get_recent_resources"} => Len(ret.list) <= 100

\* C4: the store is opened once, and at most one operation at a time is
\* between taking the lock and returning.
C4_OneOperationAtATime ==
    /\ Cardinality(connections) <= 1
    /\ Cardinality({h \in Handlers : pc[h] \in {"locked", "inserted"}}) <= 1

\* C8: command_stats(c) reports, for every command id c, the number of
\* successful invocations of c as hit_count and the mean of their execution
\* times as avg_execution_time; failed invocations count in neither.
C8_StatsOfSuccessfulInvocations ==
    (ret.op = "get_command_stats" /\ ret.arg # None) =>
        LET c == ret.arg[1]
            hits == SelectSeq(command_invocations,
                              LAMBDA r : r.command_id = c /\ r.success)
            timed == SelectSeq(hits, LAMBDA r : r.execution_time_ms # None)
        IN  /\ ret.ok
            /\ hits = << >> => ret.list = << >>
            /\ hits # << >> =>
                  /\ Len(ret.list) = 1
                  /\ ret.list[1].command_id = c
                  /\ ret.list[1].hit_count = Len(hits)
                  /\ timed # << >> =>
                        ret.list[1].avg_execution_time = <<SumOf(timed), Len(timed)>>

\* The successful invocations' command ids, oldest first.
SuccessfulHistory ==
    LET hits == SelectSeq(command_invocations, LAMBDA r : r.success)
    IN  [i \in DOMAIN hits |-> hits[i].command_id]

\* The number of positions 0 .. n - L at which sequence occurs in history.
Occurrences(sequence, history) ==
    Cardinality({p \in 0..(Len(history) - Len(sequence)) :
                   SubSeq(history, p + 1, p + Len(sequence)) = sequence})

\* C5: the frequency detect_patterns reports for a sequence of length L is the
\* number of the n - L + 1 window positions 0 .. n - L at which the sequence
\* occurs in the chronological history.
C5_FrequencyCountsAllWindows ==
    (ret.op = "detect_patterns" /\ ret.ok) =>
        \A d \in ret.list :
            d.frequency = Occurrences(d.command_sequence, SuccessfulHistory)

\* The sequence of a persisted pattern.
PatternSequence(p) == FromJson(p.command_sequence)

\* For some window size W with 1 <= W <= min(len(last_commands), len(sequence) - 1),
\* the last W entries of last_commands are the first W entries of sequence
\* and the entry of sequence after them is c.
Predicts(sequence, last_commands, c) ==
    \E W \in 1..Min(Len(last_commands), Len(sequence) - 1) :
        /\ SubSeq(last_commands, Len(last_commands) - W + 1, Len(last_commands))
             = SubSeq(sequence, 1, W)
        /\ sequence[W + 1] = c

PredictingPatterns(last_commands, c) ==
    {p \in command_patterns : Predicts(PatternSequence(p), last_commands, c)}

Candidates(last_commands) ==
    {c \in UNION {{PatternSequence(p)[i] : i \in DOMAIN PatternSequence(p)} :
                   p \in command_patterns} :
       PredictingPatterns(last_commands, c) # {}}

\* C9: with limit at least the number of distinct candidates,
\* get_pattern_suggestions returns a suggestion for c exactly when some
\* persisted pattern predicts c from the tail of last_commands, and the
\* suggestion carries the confidence of the most confident such pattern (a
\* single pattern [A,B,C] and last_commands = [A,B] give C with the pattern's
\* confidence).
C9_SuggestsExactlyThePredicted ==
    (ret.op = "get_pattern_suggestions" /\ ret.ok) =>
        LET last_commands == ret.arg[1]
            limit == ret.arg[2]
        IN  limit >= Cardinality(Candidates(last_commands)) =>
              /\ {ret.list[i].next_command : i \in DOMAIN ret.list}
                   = Candidates(last_commands)
              /\ \A i \in DOMAIN ret.list :
                    /\ \E p \in PredictingPatterns(last_commands, ret.list[i].next_command) :
                          p.confidence = ret.list[i].confidence
                    /\ \A p \in PredictingPatterns(last_commands, ret.list[i].next_command) :
                          ~RatioLess(ret.list[i].confidence, p.confidence)

\* Two commands were given, a pattern of three commands continues them, and
\* the command it predicts heads the list.
C9_Witness ==
    /\ ret.op = "get_pattern_suggestions"
    /\ ret.ok
    /\ Len(ret.arg[1]) = 2
    /\ ret.arg[1][1] # ret.arg[1][2]
    /\ ret.arg[2] >= Cardinality(Candidates(ret.arg[1]))
    /\ ret.list # << >>
    /\ \E p \in command_patterns :
          /\ Len(PatternSequence(p)) = 3
          /\ SubSeq(PatternSequence(p), 1, 2) = ret.arg[1]
          /\ PatternSequence(p)[3] = ret.list[1].next_command
          /\ p.confidence = ret.list[1].confidence

\* The confidence get_pattern_suggestions owes to candidate c.
BestConfidence(last_commands, c) ==
    LET ps == PredictingPatterns(last_commands, c)
    IN  (CHOOSE p \in ps : \A q \in ps : ~RatioLess(p.confidence, q.confidence)).confidence

\* C10: the list get_pattern_suggestions returns has at most limit entries,
\* no two with the same next_command, in non-increasing order of confidence,
\* and no candidate left out of it has a higher confidence than an entry of it.
C10_RankedDistinctTruncated ==
    (ret.op = "get_pattern_suggestions" /\ ret.ok) =>
        LET last_commands == ret.arg[1]
            limit == ret.arg[2]
            returned == {ret.list[i].next_command : i \in DOMAIN ret.list}
        IN  /\ Len(ret.list) <= limit
            /\ \A i, j \in DOMAIN ret.list :
                  i # j => ret.list[i].next_command # ret.list[j].next_command
            /\ \A i, j \in DOMAIN ret.list :
                  i < j => ~RatioLess(ret.list[i].confidence, ret.list[j].confidence)
            /\ \A c \in Candidates(last_commands) \ returned, i \in DOMAIN ret.list :
                  ~RatioLess(ret.list[i].confidence, BestConfidence(last_commands, c))

\* A candidate was cut off by the limit, and it is less confident than the
\* one returned.
C10_Witness ==
    /\ ret.op = "get_pattern_suggestions"
    /\ ret.ok
    /\ Len(ret.list) = 1
    /\ ret.arg[2] = 1
    /\ \E c \in Candidates(ret.arg[1]) :
          /\ c # ret.list[1].next_command
          /\ RatioLess(BestConfidence(ret.arg[1], c), ret.list[1].confidence)

\* C6: after record_query calls made one at a time, recent_queries holds
\* min(rows ever inserted, 100) rows, and no row that was deleted has a newer
\* timestamp than a row that is kept.
C6_QueriesRetention ==
    /\ Cardinality(recent_queries) = Min(next_rowid.recent_queries - 1, 100)
    /\ \A d \in deleted.recent_queries, k \in recent_queries :
          d.timestamp <= k.timestamp

C6_Witness ==
    /\ ret.op = "record_query"
    /\ effect.evicted # {}
    /\ Cardinality(deleted.recent_queries) >= 2
    /\ Cardinality(recent_queries) = 100

\* C7: after every completed record_resource_access the table holds at most
\* 100 rows, and every row its trim evicted has a timestamp no newer than
\* every row that is kept.
C7_ResourcesRetention ==
    ret.op = "record_resource_access" =>
        /\ Cardinality(recent_resources) <= 100
        /\ \A e \in effect.evicted, k \in recent_resources :
              e.timestamp <= k.timestamp

C7_Witness ==
    /\ ret.op = "record_resource_access"
    /\ effect.evicted # {}
    /\ Cardinality(recent_resources) = 100

C12_TooShortHistoryDetectsNothing ==
    [][(/\ ret'.op = "detect_patterns"
        /\ calls' = calls + 1
        /\ Len(SuccessfulHistory) < ret'.arg[1])
       => (/\ ret'.ok
           /\ ~ret'.panic
           /\ ret'.list = {}
           /\ command_patterns' = command_patterns)]_vars

\* The miner ran on a history the sweep had emptied, with patterns of the
\* earlier history in the table.
C12_Witness ==
    /\ ret.op = "detect_patterns"
    /\ ret.ok
    /\ ret.list = {}
    /\ Len(SuccessfulHistory) < ret.arg[1]
    /\ command_patterns # {}

\* C13: every pattern detect_patterns returns and every row of
\* command_patterns has a confidence within [0, 1], whatever the clock reads
\* relative to the timestamps of the history.
C13_ConfidenceInUnitInterval ==
    /\ \A r \in command_patterns :
          /\ ~RatioLess(r.confidence, <<0, 1>>)
          /\ ~RatioLess(<<1, 1>>, r.confidence)
    /\ ret.op = "detect_patterns" =>
          \A d \in ret.list :
              /\ ~RatioLess(d.confidence, <<0, 1>>)
              /\ ~RatioLess(<<1, 1>>, d.confidence)

\* The clock was set back 30 days behind the history: days_ago / 30 is -1,
\* the recency factor is infinite, and the pattern of frequency 2 was scored 1.
C13_Witness ==
    /\ ret.op = "detect_patterns"
    /\ \E d \in ret.list :
          /\ d.frequency = 2
          /\ d.confidence = <<1, 1>>
          /\ \A i \in DOMAIN command_invocations :
                now < command_invocations[i].timestamp

\* C14: a get_patterns(0, large limit) call that follows a detect_patterns
\* call returns, for every pattern detect_patterns returned, a row of the same
\* pattern_id whose command_sequence is the list detect_patterns returned.
C14_SequenceRoundTrip ==
    [][(/\ ret.op = "detect_patterns"
        /\ ret.ok
        /\ ret'.op = "get_patterns"
        /\ ret'.arg = <<<<0, 1>>, 10>>)
       => \A d \in ret.list :
            \E i \in DOMAIN ret'.list :
                /\ ret'.list[i].pattern_id = d.pattern_id
                /\ ret'.list[i].command_sequence = d.command_sequence]_vars

\* C15: cleanup_old_data deletes exactly the command_invocations rows whose
\* timestamp is older than now minus 90 days, successful or failed, keeps the
\* others, and leaves recent_queries, recent_resources and command_patterns
\* unchanged; run with no eligible rows, or again at once, it changes nothing.
C15_SweepDeletesExactlyTheOld ==
    [][(ret'.op = "cleanup_old_data" /\ calls' = calls + 1) =>
         LET cutoff == now' - 90 * 86400
             old == {i \in DOMAIN command_invocations :
                       command_invocations[i].timestamp < cutoff}
         IN  /\ ret'.ok
             /\ command_invocations' =
                  SelectSeq(command_invocations, LAMBDA r : r.timestamp >= cutoff)
             /\ Len(command_invocations') = Len(command_invocations) - Cardinality(old)
             /\ old = {} => command_invocations' = command_invocations
             /\ (ret.op = "cleanup_old_data" /\ now' = now) =>
                   command_invocations' = command_invocations
             /\ recent_queries' = recent_queries
             /\ recent_resources' = recent_resources
             /\ command_patterns' = command_patterns]_vars

\* The sweep left invocations in the table and deleted the ones a pattern was
\* mined from; the other tables hold rows.
C15_Witness ==
    /\ ret.op = "cleanup_old_data"
    /\ command_invocations # << >>
    /\ \E r \in command_patterns :
          \A i \in DOMAIN command_invocations :
              command_invocations[i].timestamp > r.last_seen
    /\ recent_queries # {}
    /\ recent_resources # {}

\* C16: every opening of the store leaves it with the four tables and the
\* seven indexes, each once; an opening of a store opened before changes
\* nothing of the schema; and no opening changes a row of any table.
C16_OpeningIsIdempotent ==
    [][(\E h \in Handlers : pc[h] = "idle" /\ pc'[h] = "opened") =>
         /\ {schema'[i].name : i \in DOMAIN schema'}
              = {SchemaStatements[i].name : i \in DOMAIN SchemaStatements}
         /\ Len(schema') = 11
         /\ Cardinality({i \in DOMAIN schema' : schema'[i].type = "table"}) = 4
         /\ schema # << >> => schema' = schema
         /\ command_invocations' = command_invocations
         /\ recent_queries' = recent_queries
         /\ recent_resources' = recent_resources
         /\ command_patterns' = command_patterns]_vars

\* The store was created by a first opening, a row was written, and a
\* handler has just opened the store again.
C16_Witness ==
    /\ \E h \in Handlers : pc[h] = "opened"
    /\ calls >= 2
    /\ Cardinality(recent_queries) + Cardinality(recent_resources) = 1
    /\ Len(schema) = 11

C18_PatternsAreNeverRemoved ==
    [][/\ \A r \in command_patterns :
             \E q \in command_patterns' : q.pattern_id = r.pattern_id
       /\ (ret'.op = "get_pattern_suggestions" /\ calls' = calls + 1) =>
             /\ ret'.ok
             /\ \A c \in Candidates(ret'.arg[1]) :
                   \E i \in DOMAIN ret'.list : ret'.list[i].next_command = c]_vars

\* The sweep has emptied the history, and a suggestion was still drawn from
\* the pattern mined before.
C18_Witness ==
    /\ ret.op = "get_pattern_suggestions"
    /\ ret.list # << >>
    /\ command_invocations = << >>
    /\ \E r \in command_patterns :
          now - r.last_seen >= 90 * 86400


\* A step that runs detect_patterns again, with the arguments of the run
\* before it and no write in between.
DetectRerun ==
    /\ ret.op = "detect_patterns" /\ ret.ok
    /\ ret'.op = "detect_patterns" /\ ret'.ok
    /\ ret'.arg = ret.arg
    /\ calls' = calls + 1
    /\ command_invocations' = command_invocations

\* The rerun leaves the content of every persisted pattern and adds no row;
\* the patterns it detected carry the time of the rerun as last_seen.
RerunKeepsContent ==
    /\ {r.pattern_id : r \in command_patterns'} = {r.pattern_id : r \in command_patterns}
    /\ Cardinality(command_patterns') = Cardinality(command_patterns)
    /\ \A r \in command_patterns, q \in command_patterns' :
         q.pattern_id = r.pattern_id =>
            /\ q.command_sequence = r.command_sequence
            /\ q.frequency = r.frequency
            /\ q.confidence = r.confidence
            /\ q.avg_time_between_commands = r.avg_time_between_commands
            /\ (\E d \in ret'.list : d.pattern_id = q.pattern_id) => q.last_seen = now'

\* The age in whole days (Duration::num_days) of every invocation is the same
\* at the two clock readings.
SameAges(clock, later) ==
    \A i \in 1..Len(command_invocations) :
        TruncDiv(clock - command_invocations[i].timestamp, SecondsPerDay)
            = TruncDiv(later - command_invocations[i].timestamp, SecondsPerDay)

\* C19 as stated: detect_patterns run twice over the same history, with no
\* write in between and on the same calendar day, leaves every persisted
\* pattern's command_sequence, frequency, confidence and
\* avg_time_between_commands and adds no row; only last_seen moves, to the
\* time of the second run.
C19_RerunSameDay ==
    [][(DetectRerun /\ now \div SecondsPerDay = now' \div SecondsPerDay)
          => RerunKeepsContent]_vars

\* C19, amended: the same, for two runs between which no invocation's age in
\* whole days changes.
C19_RerunSameAges ==
    [][(DetectRerun /\ SameAges(now, now')) => RerunKeepsContent]_vars

C19_Witness ==
    /\ ret.op = "detect_patterns" /\ ret.ok
    /\ effect.rerun
    /\ ret.list # {}
    /\ \A i \in 1..Len(command_invocations) :
         /\ now >= command_invocations[i].timestamp
         /\ now - command_invocations[i].timestamp < SecondsPerDay
    /\ \A d \in ret.list : \E r \in command_patterns :
         r.pattern_id = d.pattern_id /\ r.last_seen = now


\* The access counts the two listings report for a key: those of its rows.
ReportedCounts(rows, key) ==
    {ResourceSummary(r).access_count : r \in {q \in rows : KeyOf(q) = key}}

Largest(counts) == CHOOSE c \in counts : \A d \in counts : d <= c

\* C20: over record_resource_access calls the access_count reported for a key
\* never decreases, and a repeat access of the key makes it strictly larger
\* (taken for the largest count reported for the key, so that two rows of one
\* key are read in the claim's favour).
C20_AccessCountGrows ==
    [][(ret'.op = "record_resource_access" /\ calls' = calls + 1) =>
          \A key \in {KeyOf(r) : r \in recent_resources} :
             LET before == ReportedCounts(recent_resources, key)
                 after == ReportedCounts(recent_resources', key)
             IN  after # {} =>
                    /\ Largest(after) >= Largest(before)
                    /\ effect'.key = key => Largest(after) > Largest(before)]_vars


\* The persisted patterns whose command_sequence reads back as the empty
\* sequence.
MalformedPatterns == {p \in command_patterns : PatternSequence(p) = << >>}

\* C21: with a persisted pattern whose command_sequence is malformed,
\* get_pattern_suggestions and get_patterns still return: the pattern
\* matches nothing, and the suggestions are those of the other patterns.
C21_MalformedPatternIsSkipped ==
    (ret.op \in {"get_pattern_suggestions", "get_patterns"} /\ MalformedPatterns # {}) =>
        /\ ret.ok
        /\ ~ret.panic
        /\ (ret.op = "get_pattern_suggestions"
              /\ ret.arg[2] >= Cardinality(Candidates(ret.arg[1]))) =>
                {ret.list[i].next_command : i \in DOMAIN ret.list} = Candidates(ret.arg[1])


\* The confidence of a pattern of the given frequency whose recency_factor
\* is r: (frequency_factor * 0.7 + r * 0.3).min(1.0).
ConfidenceAtRecency(frequency, r) ==
    RatioMin(RatioAdd(RatioMul(FrequencyFactor(frequency), <<7, 10>>),
                      RatioMul(r, <<3, 10>>)),
             <<1, 1>>)

\* C22: the recency_factor detect_patterns uses lies in [0.1, 1.0] for every
\* last-seen timestamp that parses, one later than the current time
\* included: the confidence it returns for a pattern then lies between the
\* confidences of recency 0.1 and of recency 1.0 at the pattern's frequency.
C22_RecencyFactorInRange ==
    ret.op = "detect_patterns" =>
        \A d \in ret.list :
            /\ ~RatioLess(d.confidence, ConfidenceAtRecency(d.frequency, <<1, 10>>))
            /\ ~RatioLess(ConfidenceAtRecency(d.frequency, <<1, 1>>), d.confidence)


\* The timestamp of the last command of the final window, among the windows
\* the miner slides over commands, whose command ids are sequence.
FinalWindowEnd(commands, sequence) ==
    LET n == Len(sequence)
        hits == {i \in Positions(Len(commands), n) :
                   [j \in 1..n |-> Window(commands, i, n)[j].command_id] = sequence}
        final == CHOOSE i \in hits : \A k \in hits : k <= i
    IN  commands[final + n].timestamp

\* C23: the timestamp detect_patterns uses for a pattern's recency_factor is
\* that of the last command of the final window in which the pattern occurs:
\* the confidence it returns is the one computed from that timestamp.
C23_RecencyOfFinalWindow ==
    ret.op = "detect_patterns" =>
        \A d \in ret.list, commands \in ChronologicalCommands :
            d.confidence = Confidence(d.frequency,
                                      FinalWindowEnd(commands, d.command_sequence), now)


\* The windows the miner slides over commands whose command ids are sequence.
ProcessedWindowsOf(commands, sequence) ==
    {i \in Positions(Len(commands), Len(sequence)) :
       [j \in 1..Len(sequence) |-> Window(commands, i, Len(sequence))[j].command_id]
          = sequence}

\* C24: pattern_id identifies a sequence: only windows of the same length
\* and the same command ids in the same order are accumulated together, so a
\* detected pattern's frequency counts the windows of its own sequence, and
\* the row under its pattern_id holds that sequence.
C24_PatternIdIdentifiesSequence ==
    (ret.op = "detect_patterns" /\ ret.ok) =>
        \A d \in ret.list :
            /\ \A commands \in ChronologicalCommands :
                  d.frequency = Cardinality(ProcessedWindowsOf(commands, d.command_sequence))
            /\ \A r \in command_patterns :
                  r.pattern_id = d.pattern_id =>
                      FromJson(r.command_sequence) = d.command_sequence


\* C25: every suggestion get_pattern_suggestions returns carries the largest
\* confidence among the persisted patterns that predict its next command,
\* and its pattern_frequency and context are the frequency and the
\* pattern_id of one such pattern of that confidence.
C25_SuggestionOfOneBestPattern ==
    (ret.op = "get_pattern_suggestions" /\ ret.ok) =>
        \A i \in DOMAIN ret.list :
            LET s == ret.list[i]
                predicting == PredictingPatterns(ret.arg[1], s.next_command)
            IN  \E p \in predicting :
                   /\ p.confidence = s.confidence
                   /\ p.frequency = s.pattern_frequency
                   /\ p.pattern_id = s.context
                   /\ \A q \in predicting : ~RatioLess(p.confidence, q.confidence)

\* A returned command is predicted by two patterns of different confidence
\* and frequency.
C25_Witness ==
    /\ ret.op = "get_pattern_suggestions"
    /\ ret.ok
    /\ \E i \in DOMAIN ret.list :
          \E p, q \in PredictingPatterns(ret.arg[1], ret.list[i].next_command) :
             /\ RatioLess(q.confidence, p.confidence)
             /\ q.frequency # p.frequency
             /\ ret.list[i].context = p.pattern_id


\* C26: every command_patterns row detect_patterns(min_len, max_len) writes,
\* for 1 <= min_len <= max_len, has a command_sequence of at least 2 and at
\* most max_len commands.
C26_SequenceLengthInRange ==
    (ret.op = "detect_patterns" /\ ret.ok
       /\ 1 <= ret.arg[1] /\ ret.arg[1] <= ret.arg[2]) =>
        \A d \in ret.list, r \in command_patterns :
            r.pattern_id = d.pattern_id =>
                /\ Len(d.command_sequence) >= 2
                /\ Len(d.command_sequence) <= ret.arg[2]
                /\ Len(FromJson(r.command_sequence)) >= 2


\* frequency >= 20: the frequency_factor is at its cap.
Saturation == 20

\* The timestamp the miner scores a returned pattern by: that of the last
\* command of the first window holding its sequence.
ScoredTimestamp(d) ==
    LET commands == CHOOSE c \in ChronologicalCommands : TRUE
        hits == ProcessedWindowsOf(commands, d.command_sequence)
        first == CHOOSE i \in hits : \A k \in hits : i <= k
    IN  commands[first + Len(d.command_sequence)].timestamp

DaysAgo(d) == TruncDiv(now - ScoredTimestamp(d), SecondsPerDay)

\* C27: of the patterns of one run whose scored occurrence is not in the
\* future, one of frequency >= 20 has a strictly higher confidence than one
\* of frequency 2, whatever their times; and of two patterns of equal recency
\* the more frequent has the strictly higher confidence below frequency 20,
\* and the same confidence from 20 on.
C27_FrequencyDominatesRecency ==
    (ret.op = "detect_patterns" /\ ret.ok) =>
        \A d, e \in ret.list :
            /\ (DaysAgo(d) >= 0 /\ DaysAgo(e) >= 0
                  /\ d.frequency >= Saturation /\ e.frequency = 2) =>
                    RatioLess(e.confidence, d.confidence)
            /\ (DaysAgo(d) = DaysAgo(e) /\ DaysAgo(d) >= 0) =>
                  /\ (e.frequency < d.frequency /\ e.frequency < Saturation) =>
                        RatioLess(e.confidence, d.confidence)
                  /\ (e.frequency >= Saturation /\ d.frequency >= Saturation) =>
                        e.confidence = d.confidence

\* A pattern of frequency 20 or more last scored long ago at the lowest
\* recency, next to a pattern of frequency 2 of the highest; and two
\* patterns of different frequencies past 20.
C27_Witness ==
    /\ ret.op = "detect_patterns"
    /\ \E d, e \in ret.list :
          /\ d.frequency >= Saturation /\ DaysAgo(d) >= 270
          /\ e.frequency = 2 /\ DaysAgo(e) = 0
    /\ \E d, e \in command_patterns :
          d.frequency >= Saturation /\ e.frequency > d.frequency


\* C28: the row a record_query or record_resource_access call inserted or
\* updated is in its table when the call returns, whatever timestamps the
\* clock gave.
C28_TrimKeepsTheWrite ==
    /\ ret.op = "record_query" =>
          \A id \in effect.touched : \E r \in recent_queries : r.id = id
    /\ ret.op = "record_resource_access" =>
          \A id \in effect.touched : \E r \in recent_resources : r.id = id


\* C29: detect_patterns(min_len, max_len) returns, with a list or a store
\* error, for every pair of arguments and every history, min_len = 0,
\* min_len = 1 and max_len < min_len included: it never aborts.
C29_DetectNeverAborts ==
    ret.op = "detect_patterns" => ~ret.panic


\* C30: the label "main-<window_count>" create_window_internal chooses is
\* not the label of a window that is still open, whatever windows were
\* created and closed before: the creation does not fail on a label clash.
C30_NewLabelIsFree ==
    ret.op = "create_window_internal" =>
        /\ ret.ok
        /\ ret.arg \in windows

=============================================================================
